---- MODULE Spec2Model ----
(***************************************************************************)
(* Avatar AI backend: the WebSocket connection manager and endpoint of     *)
(* src/backend/main.py and the pipeline orchestrator of                    *)
(* src/backend/avatar_ai_services.py, as one asyncio event loop.           *)
(*                                                                         *)
(* Scheduling model.  Everything runs on one event loop, so the code       *)
(* between two suspension points of a task is one atomic action.  An       *)
(* `await` is a suspension point only when the awaited coroutine reaches   *)
(* real asynchronous I/O: websocket accept/receive/send/close, the httpx   *)
(* AsyncClient calls of DIDService and asyncio.sleep.  STTService,         *)
(* LLMService and TTSService call the synchronous openai.OpenAI client     *)
(* inside `async def` bodies that contain no await, so awaiting them never *)
(* yields to the loop (see Suspends).                                      *)
(***************************************************************************)
EXTENDS Integers, Sequences, FiniteSets, TLC

None == "None"

\* ------------------------------------------------------------------ bounds
MaxExchanges == 12     \* exchanges appended in SpecHistory
MaxConns == 2          \* websocket connections opened in a run
MaxHttp == 2           \* HTTP requests (test-text, forced disconnect) in a run
MaxInputs == 3         \* connections opened, frames sent and HTTP requests, together
MinAdvance == 60       \* least sampled time (s) one poll round and its sleep take
MaxPad == 2            \* blanks before and after a text handed to synthesis
MaxOver == 3           \* characters tried on either side of the synthesis limit
MaxEarlier == 11       \* exchanges earlier calls of a user have appended

\* ------------------------------------------------------- program constants
HistoryLimit == 20     \* _update_conversation_history: len(...) > 20, [-20:]
ContextWindow == 10    \* generate_response: conversation_history[-10:]
MaxWait == 120         \* _wait_for_completion(max_wait=120)
TTSLimit == 4000       \* synthesize_speech: len(clean_text) > 4000, [:4000]
PollInterval == 3      \* asyncio.sleep(3)

Users == {"u1", "u2"}
Conns == 1..MaxConns
Https == 1..MaxHttp
NoConn == 0

\* ------------------------------------------------------------------- dicts
\* A python dict is a function whose DOMAIN is its key set.
EmptyDict == [x \in {} |-> None]
DictSet(d, k, v) == [x \in (DOMAIN d) \cup {k} |-> IF x = k THEN v ELSE d[x]]
DictDel(d, k) == [x \in (DOMAIN d) \ {k} |-> d[x]]
DictGet(d, k, default) == IF k \in DOMAIN d THEN d[k] ELSE default

\* ------------------------------------------------------------------- text
\* Texts are sequences of characters.
Digits == <<"0", "1", "2", "3", "4", "5", "6", "7", "8", "9">>

RECURSIVE Numeral(_)
Numeral(n) ==
    IF n < 10 THEN <<Digits[n + 1]>>
    ELSE Numeral(n \div 10) \o <<Digits[(n % 10) + 1]>>

Whitespace == {" "}

\* n blanks
Pad(n) == [i \in 1..n |-> " "]

\* A text of n characters that neither starts nor ends with a blank, with a
\* blank inside, whose characters differ from one place to the next.
Body(n) == [i \in 1..n |-> IF i = 2 /\ n > 2 THEN " " ELSE Digits[(i % 10) + 1]]

RECURSIVE LStrip(_)
LStrip(s) ==
    IF s # <<>> /\ Head(s) \in Whitespace THEN LStrip(Tail(s)) ELSE s

RECURSIVE RStrip(_)
RStrip(s) ==
    IF s # <<>> /\ s[Len(s)] \in Whitespace
    THEN RStrip(SubSeq(s, 1, Len(s) - 1)) ELSE s

\* str.strip()
Strip(s) == RStrip(LStrip(s))

\* python list slicing s[-n:]
LastN(s, n) ==
    IF Len(s) <= n THEN s ELSE SubSeq(s, Len(s) - n + 1, Len(s))

Turn(role, content) == [role |-> role, content |-> content]

\* mutant of UpdateConversationHistory: the slice keeps the oldest 20 turns
UpdateConversationHistoryKeepOldest(sessions, user_id, user_message, ai_response) ==
    LET ext == DictGet(sessions, user_id, <<>>) \o
                 <<Turn("user", user_message), Turn("assistant", ai_response)>>
    IN  DictSet(sessions, user_id,
            IF Len(ext) > HistoryLimit THEN SubSeq(ext, 1, HistoryLimit) ELSE ext)

\* mutant of UpdateConversationHistory: the two turns are assigned, not appended
UpdateConversationHistoryReplace(sessions, user_id, user_message, ai_response) ==
    DictSet(sessions, user_id,
            <<Turn("user", user_message), Turn("assistant", ai_response)>>)

\* mutant of UpdateConversationHistory: the exchange is appended to the history
\* of every user, not only to that of user_id
UpdateConversationHistoryOfAll(sessions, user_id, user_message, ai_response) ==
    [u \in (DOMAIN sessions) \cup Users |->
        LET ext == DictGet(sessions, u, <<>>) \o
                     <<Turn("user", user_message), Turn("assistant", ai_response)>>
        IN  IF Len(ext) > HistoryLimit THEN LastN(ext, HistoryLimit) ELSE ext]

\* mutant of UpdateConversationHistory: eviction keeps one turn fewer than the
\* limit, an odd number of turns
UpdateConversationHistoryOddCut(sessions, user_id, user_message, ai_response) ==
    LET ext == DictGet(sessions, user_id, <<>>) \o
                 <<Turn("user", user_message), Turn("assistant", ai_response)>>
    IN  DictSet(sessions, user_id,
            IF Len(ext) > HistoryLimit THEN LastN(ext, HistoryLimit - 1) ELSE ext)

\* ServerlessAvatarPipeline._update_conversation_history
UpdateConversationHistory(sessions, user_id, user_message, ai_response) ==
    LET ext == DictGet(sessions, user_id, <<>>) \o
                 <<Turn("user", user_message), Turn("assistant", ai_response)>>
    IN  DictSet(sessions, user_id,
            IF Len(ext) > HistoryLimit THEN LastN(ext, HistoryLimit) ELSE ext)

\* mutant of ContextWindowOf: the slice keeps the oldest 10 turns
ContextWindowOfOldest(sessions, user_id) ==
    LET h == DictGet(sessions, user_id, <<>>)
    IN  IF Len(h) <= ContextWindow THEN h ELSE SubSeq(h, 1, ContextWindow)

\* conversation_history = self.user_sessions.get(user_id, []) followed by
\* generate_response's conversation_history[-10:]
ContextWindowOf(sessions, user_id) ==
    LastN(DictGet(sessions, user_id, <<>>), ContextWindow)

VARIABLES
    active_connections,  \* ConnectionManager.active_connections: user id -> websocket
    user_metadata,       \* ConnectionManager.user_metadata: user id -> metadata
    user_sessions,       \* ServerlessAvatarPipeline.user_sessions: user id -> turns
    cfg,                 \* which optional backends the environment configures
    ws,                  \* the websocket objects: connection state, bound user id
    ep,                  \* the websocket_endpoint coroutine of each connection
    http,                \* the HTTP handler coroutines
    blocked,             \* a coroutine loops without ever suspending: the loop is stuck
    last,                \* ghost: the handling that has just completed
    appendLog,           \* ghost: every turn ever appended, per user
    nexch,               \* ghost: exchanges appended so far in SpecHistory
    tts                  \* a synthesize_speech call on its own: its text, the provider's input

vars == <<active_connections, user_metadata, user_sessions, cfg, ws, ep, http,
          blocked, last, appendLog, nexch, tts>>

\* ------------------------------------------------------------ coroutines
\* The result dict of process_text_input / process_audio_input.
NoResult == [status |-> "none"]

\* The locals of one pipeline call (and ghosts: inv, logpos).
NoCall ==
    [kind |-> "none",      \* "text" | "audio"
     text |-> <<>>,        \* text / transcribed_text
     ctx |-> <<>>,         \* the messages handed to generation (after the system prompt)
     resp |-> <<>>,        \* llm_response["text"]
     tokens |-> 0,         \* llm_response["tokens_used"]
     elapsed |-> 0,        \* (datetime.now() - start_time).seconds
     inv |-> <<>>,         \* ghost: the stages invoked, in order
     polls |-> 0,          \* ghost: status polls made
     logpos |-> 0,         \* ghost: Len(appendLog[uid]) right after this call's append
     before |-> <<>>,      \* ghost: the user's history when the context was read
     after |-> <<>>,       \* ghost: the user's history right after this call's update
     failed |-> "none",    \* ghost: the stage that failed
     cache |-> <<>>,       \* ghost: the answers the media-cache step got
     regd |-> FALSE,       \* ghost: the caller's websocket was the registered one at the call
     result |-> NoResult]

NoMsg == [type |-> "none", text |-> <<>>, audio |-> "none"]

\* A coroutine: a websocket_endpoint (origin "ws") or an HTTP handler.
IdleTask(origin, id) ==
    [origin |-> origin,
     id |-> id,
     pc |-> "idle",
     uid |-> "-",
     k |-> "-",            \* what follows the pending send_personal_message
     env |-> "-",          \* the envelope type being sent
     target |-> NoConn,    \* the websocket the pending send / close was issued on
     msg |-> NoMsg,        \* the frame being handled
     disc |-> FALSE,       \* receive_text has raised: the client side is gone
     nmsg |-> 0,           \* frames received
     sent |-> <<>>,        \* ghost: envelopes passed to send_personal_message for msg
     removed |-> FALSE,    \* ghost: handling msg, this coroutine removed a registration
     p |-> NoCall,
     http_status |-> 0]

\* ghost: the handling of a frame (or an HTTP pipeline call) that has just
\* completed, with what it sent and the locals of its pipeline call
NoLast ==
    [origin |-> "none", id |-> 0, uid |-> "-", msg |-> NoMsg, sent |-> <<>>,
     removed |-> FALSE, p |-> NoCall, k |-> "-", http_status |-> 0]

\* The program state one atomic step works on; t is the running coroutine.
Machine(t) ==
    [ac |-> active_connections, um |-> user_metadata, us |-> user_sessions,
     ws |-> ws, blocked |-> blocked, log |-> appendLog, n |-> nexch, last |-> last,
     t |-> t]

\* mutant of Disconnect: the user's conversation history is dropped with the
\* registration
DisconnectDropsHistory(m, user_id) ==
    [m EXCEPT !.ac = DictDel(m.ac, user_id), !.um = DictDel(m.um, user_id),
              !.us = DictDel(m.us, user_id),
              !.t.removed = @ \/ user_id \in DOMAIN m.ac \/ user_id \in DOMAIN m.um]

\* mutant of Disconnect: only the websocket is removed, the metadata stays
DisconnectKeepsMetadata(m, user_id) ==
    [m EXCEPT !.ac = DictDel(m.ac, user_id),
              !.t.removed = @ \/ user_id \in DOMAIN m.ac]

\* ConnectionManager.disconnect
Disconnect(m, user_id) ==
    [m EXCEPT !.ac = DictDel(m.ac, user_id), !.um = DictDel(m.um, user_id),
              !.t.removed = @ \/ user_id \in DOMAIN m.ac \/ user_id \in DOMAIN m.um]

\* ghost: the handling of the current frame has issued its last send (or the
\* HTTP pipeline call has returned); publish it in `last`
Complete(m) ==
    IF m.t.origin = "ws" /\ m.t.msg.type \in {"none", "closed"} THEN m
    ELSE [m EXCEPT !.last = [origin |-> m.t.origin, id |-> m.t.id, uid |-> m.t.uid,
                             msg |-> m.t.msg, sent |-> m.t.sent,
                             removed |-> m.t.removed, p |-> m.t.p,
                             k |-> m.t.k, http_status |-> m.t.http_status],
                   !.t.msg = NoMsg, !.t.sent = <<>>, !.t.removed = FALSE,
                   !.t.p = NoCall]

\* mutant of TrySend: with the user unregistered the envelope is sent on the
\* coroutine's own websocket
TrySendOwnSocket(m, env, k) ==
    LET u == m.t.uid
        to == DictGet(m.ac, u, m.t.id)
        note == IF m.t.msg.type \in {"none", "closed"} THEN m.t.sent
                ELSE Append(m.t.sent, [type |-> env, to |-> to])
    IN  [m EXCEPT !.t.pc = "send", !.t.target = to, !.t.env = env,
                  !.t.k = k, !.t.sent = note]

\* ConnectionManager.send_personal_message up to its await: with the user
\* registered the coroutine suspends in send_text on the registered websocket;
\* otherwise the call returns at once (pc "cont": the caller goes on with k).
TrySend(m, env, k) ==
    LET u == m.t.uid
        to == DictGet(m.ac, u, NoConn)
        note == IF m.t.msg.type \in {"none", "closed"} THEN m.t.sent
                ELSE Append(m.t.sent, [type |-> env, to |-> to])
    IN  IF u \in DOMAIN m.ac
        THEN [m EXCEPT !.t.pc = "send", !.t.target = to, !.t.env = env,
                       !.t.k = k, !.t.sent = note,
                       \* ghost: the first envelope send_text was called with
                       !.ws[to].first = IF @ = "-" THEN env ELSE @]
        ELSE [m EXCEPT !.t.pc = "cont", !.t.k = k, !.t.sent = note]

\* websocket_endpoint, the top of `while True`.  Once receive_text has raised
\* (WebSocketDisconnect is an Exception, caught by the inner handler) every
\* further receive_text raises at once, the handler sends an error envelope and
\* the loop goes round again: with the user unregistered no await suspends and
\* the coroutine never gives the event loop back.
LoopTop(m) ==
    IF ~m.t.disc THEN [m EXCEPT !.t.pc = "recv"]
    ELSE LET m1 == TrySend(m, "error", "loop")
         IN  IF m1.t.pc = "cont"
             THEN [m1 EXCEPT !.t.pc = "spin", !.blocked = TRUE]
             ELSE m1

\* send_personal_message as the last statement of a handler branch: once it
\* is called, the handling of the frame has done all it does
SendThenLoop(m, env) ==
    LET m1 == Complete(TrySend(m, env, "loop"))
    IN  IF m1.t.pc = "cont" THEN LoopTop(m1) ELSE m1

\* --------------------------------------------------------------- pipeline
\* The awaited calls of a pipeline call, in the order the code makes them.
Stages == {"stt", "llm", "tts", "upload", "submit", "poll", "sleep",
           "cache_dl", "cache_ul"}

\* mutant of Suspends: generation awaits real asynchronous I/O (an async client)
SuspendsAsyncLLM(stage) ==
    stage \in {"llm", "upload", "submit", "poll", "sleep", "cache_dl", "cache_ul"}

\* Whether awaiting the stage gives the event loop to other coroutines.
\* transcribe_audio, generate_response and synthesize_speech call the blocking
\* openai.OpenAI client and contain no await; DIDService awaits httpx.AsyncClient
\* and asyncio.sleep.
Suspends(stage) ==
    stage \in {"upload", "submit", "poll", "sleep", "cache_dl", "cache_ul"}

\* What the awaited call can answer.
Outcomes(stage) ==
    CASE stage \in {"stt", "llm", "tts", "upload", "submit", "cache_ul"} -> {"ok", "raise"}
      [] stage = "poll" -> {"pending", "done", "error", "non200"}
      [] stage = "sleep" -> {MinAdvance, MaxWait}   \* seconds since the last check
      [] stage = "cache_dl" -> {"200", "non200", "raise"}

\* response.usage.total_tokens of the n-th response generated for a user
TokensUsed(n) == 4 + n

\* The answers of the calls that return without suspending, and the data the
\* providers return, fixed when a step starts.
Oracles ==
    {[stt |-> "raise", llm |-> "raise", tts |-> "raise"],
     [stt |-> "ok", llm |-> "raise", tts |-> "raise"],
     [stt |-> "ok", llm |-> "ok", tts |-> "raise"],
     [stt |-> "ok", llm |-> "ok", tts |-> "ok"]}

\* The oracles a step of coroutine t can tell apart: all of them when the step
\* can reach a call that returns without suspending, one otherwise.
OraclesAt(t) ==
    IF \/ t.pc \in Stages
       \/ t.pc = "idle"
       \/ t.pc = "send" /\ t.k # "loop"
       \/ t.pc = "recv" /\ t.uid \notin DOMAIN active_connections
    THEN Oracles
    ELSE {CHOOSE o \in Oracles : o.tts = "ok"}

\* transcript.text: what the speaker said
TranscribedText == <<"h", "i">>

\* The text of the n-th response generated for a user.
ResponseText(n) == <<"r">> \o Numeral(n)

\* An HTTP handler returns its response.
HttpReturn(m, status) ==
    LET m1 == Complete([m EXCEPT !.t.http_status = status])
    IN  [m1 EXCEPT !.t = [IdleTask("http", m.t.id) EXCEPT !.pc = "done"]]

\* The handler's last statement for a ws coroutine; an HTTP handler returns.
Finish(m, result) ==
    LET m1 == [m EXCEPT !.t.p.result = result, !.t.p.elapsed = 0]
    IN  IF m.t.origin = "ws"
        THEN SendThenLoop(m1,
                 IF result.status = "success"
                 THEN (IF m.t.p.kind = "text" THEN "text_response" ELSE "audio_response")
                 ELSE "error")
        ELSE HttpReturn(m1, 200)

\* mutant of PipelineFailed: the except branch reports success
PipelineFailedAsSuccess(m, error) ==
    Finish(m, [status |-> "success", error |-> error, timestamp |-> "now"])

\* process_*_input, `except Exception as e`: the failed result
PipelineFailed(m, error) ==
    Finish(m, [error |-> error, status |-> "failed", timestamp |-> "now"])

\* mutant of Raise: a call that fails after generation takes its exchange back
RaiseRollsBack(m, stage, error) ==
    PipelineFailed([m EXCEPT !.t.p.failed = stage,
                             !.us = IF m.t.p.logpos = 0 THEN @
                                    ELSE IF m.t.p.before = <<>>
                                         THEN DictDel(@, m.t.uid)
                                         ELSE [@ EXCEPT ![m.t.uid] = m.t.p.before]],
                   error)

\* A stage raises: the exception reaches the except branch of process_*_input.
Raise(m, stage, error) ==
    PipelineFailed([m EXCEPT !.t.p.failed = stage], error)

\* mutant of PipelineSucceeded: the token count is not taken from generation
PipelineSucceededZeroTokens(m, video_url) ==
    Finish(m, [input |-> m.t.p.text,
               ai_response_text |-> m.t.p.resp,
               avatar_video_url |-> video_url,
               processing_time |-> "now",
               tokens_used |-> 0,
               status |-> "success"])

\* process_*_input, the success result (input is user_input / transcribed_text)
PipelineSucceeded(m, video_url) ==
    Finish(m, [input |-> m.t.p.text,
               ai_response_text |-> m.t.p.resp,
               avatar_video_url |-> video_url,
               processing_time |-> "now",
               tokens_used |-> m.t.p.tokens,
               status |-> "success"])

\* create_talking_avatar without an API key: the mock response.  Its video_url
\* ("mock" here) is a fixed sample-video URL; process_*_input copy nothing but
\* video_url out of it.
MockAvatar ==
    [video_url |-> "mock", avatar_type |-> "female", status |-> "completed",
     mock |-> TRUE]

\* mutant of CacheVideoToAzure: no except clause, a failed download or upload
\* raises out of the cache step
CacheVideoToAzureRaises(stage, out) ==
    CASE stage = "cache_dl" /\ out = "200" -> "upload"
      [] stage = "cache_ul" /\ out = "ok" -> "cdn"
      [] out = "raise" -> "raise"
      [] OTHER -> "none"

\* _cache_video_to_azure after its download or upload has answered: go on to
\* the upload, return the CDN URL, or return None (a download that is not 200
\* falls out of the `if`; `except Exception` swallows whatever was raised)
CacheVideoToAzure(stage, out) ==
    CASE stage = "cache_dl" /\ out = "200" -> "upload"
      [] stage = "cache_ul" /\ out = "ok" -> "cdn"
      [] OTHER -> "none"

RECURSIVE Call(_, _, _), Return(_, _, _, _)

\* mutant of Call: a stage that returns without suspending and raises is
\* invoked a second time before its exception is let through
CallRetries(m, stage, o) ==
    LET m1 == IF stage \in {"poll", "sleep"}
              THEN [m EXCEPT !.t.p.polls = @ + (IF stage = "poll" THEN 1 ELSE 0)]
              ELSE [m EXCEPT !.t.p.inv = Append(@, stage)]
    IN  IF Suspends(stage)
        THEN [m1 EXCEPT !.t.pc = stage]
        ELSE IF o[stage] = "raise"
             THEN Return([m1 EXCEPT !.t.p.inv = Append(@, stage)], stage, o[stage], o)
             ELSE Return(m1, stage, o[stage], o)

\* The pipeline reaches `await <stage>`: the stage is invoked; the coroutine
\* suspends there, or the call returns at once with the oracle's answer.
Call(m, stage, o) ==
    LET m1 == IF stage \in {"poll", "sleep"}
              THEN [m EXCEPT !.t.p.polls = @ + (IF stage = "poll" THEN 1 ELSE 0)]
              ELSE [m EXCEPT !.t.p.inv = Append(@, stage)]
    IN  IF Suspends(stage)
        THEN [m1 EXCEPT !.t.pc = stage]
        ELSE Return(m1, stage, o[stage], o)

\* The awaited stage answers `out`; the code runs on to the next await.
Return(m, stage, out, o) ==
    LET uid == m.t.uid IN
    CASE stage = "stt" ->
           IF out = "raise" THEN Raise(m, stage, "Speech recognition failed")
           ELSE \* conversation_history = self.user_sessions.get(user_id, [])
                Call([m EXCEPT !.t.p.text = TranscribedText,
                               !.t.p.ctx = ContextWindowOf(m.us, uid),
                               !.t.p.before = DictGet(m.us, uid, <<>>)], "llm", o)
      [] stage = "llm" ->
           IF out = "raise" THEN Raise(m, stage, "AI response generation failed")
           ELSE LET n == (Len(m.log[uid]) \div 2) + 1
                    resp == ResponseText(n)
                    log == m.log[uid] \o <<Turn("user", m.t.p.text),
                                           Turn("assistant", resp)>>
                IN  Call([m EXCEPT !.t.p.resp = resp,
                                   !.t.p.tokens = TokensUsed(n),
                                   !.us = UpdateConversationHistory(m.us, uid, m.t.p.text, resp),
                                   !.log[uid] = log,
                                   !.t.p.logpos = Len(log),
                                   !.t.p.after = UpdateConversationHistory(
                                       m.us, uid, m.t.p.text, resp)[uid]], "tts", o)
      [] stage = "tts" ->
           IF out = "raise" THEN Raise(m, stage, "Speech synthesis failed")
           ELSE \* _process_avatar_generation -> create_talking_avatar
                LET m1 == [m EXCEPT !.t.p.inv = Append(@, "render")]
                IN  IF ~cfg.did THEN PipelineSucceeded(m1, MockAvatar.video_url)
                    ELSE Call(m1, "upload", o)
      [] stage = "upload" ->
           IF out = "raise" THEN Raise(m, stage, "Avatar generation failed")
           ELSE Call(m, "submit", o)
      [] stage = "submit" ->
           IF out = "raise" THEN Raise(m, stage, "Avatar generation failed")
           ELSE \* _wait_for_completion: start_time = now; 0 < max_wait
                Call([m EXCEPT !.t.p.elapsed = 0], "poll", o)
      [] stage = "poll" ->
           IF out \in {"non200", "error"} THEN Raise(m, stage, "Avatar generation failed")
           ELSE IF out = "pending" THEN Call(m, "sleep", o)
           ELSE \* "done": _cache_video_to_azure
                \* `if not self.storage_service.blob_service: return None`
                IF ~cfg.storage
                THEN PipelineSucceeded([m EXCEPT !.t.p.cache = <<"unconfigured">>],
                                       "origin")
                ELSE Call(m, "cache_dl", o)
      [] stage = "sleep" ->
           LET e == IF m.t.p.elapsed + out >= MaxWait THEN MaxWait
                    ELSE m.t.p.elapsed + out
               m1 == [m EXCEPT !.t.p.elapsed = e]
           IN  IF e < MaxWait THEN Call(m1, "poll", o)
               ELSE Raise(m1, stage, "Avatar generation failed: Video generation timeout")
      [] stage \in {"cache_dl", "cache_ul"} ->
           LET azure_video_url == CacheVideoToAzure(stage, out)
               m1 == [m EXCEPT !.t.p.cache = Append(@, out)]
           IN  IF azure_video_url = "upload" THEN Call(m1, "cache_ul", o)
               ELSE IF azure_video_url = "raise"
               THEN \* create_talking_avatar, `except Exception`
                    Raise(m1, stage, "Avatar generation failed")
               ELSE \* "video_url": azure_video_url or video_url
                    PipelineSucceeded(m1, IF azure_video_url = "cdn" THEN "cdn"
                                          ELSE "origin")

\* ghost: the calling coroutine is a session whose websocket is the one
\* registered under its user id
CallerRegistered(m) ==
    /\ m.t.origin = "ws"
    /\ m.t.uid \in DOMAIN m.ac
    /\ m.ac[m.t.uid] = m.t.id

\* ServerlessAvatarPipeline.process_text_input
ProcessTextInput(m, text, o) ==
    Call([m EXCEPT !.t.p = [NoCall EXCEPT !.kind = "text", !.text = text,
                                          !.regd = CallerRegistered(m),
                                          !.ctx = ContextWindowOf(m.us, m.t.uid),
                                          !.before = DictGet(m.us, m.t.uid, <<>>)]],
         "llm", o)

\* ServerlessAvatarPipeline.process_audio_input
ProcessAudioInput(m, o) ==
    Call([m EXCEPT !.t.p = [NoCall EXCEPT !.kind = "audio",
                                          !.regd = CallerRegistered(m)]], "stt", o)

\* --------------------------------------------------------------- handlers
InTexts == {<<>>, <<" ", " ">>, <<" ", "h", "i", " ">>}
AudioData == {"missing", "bad_b64", "ok"}

\* The frames a client can send.
Messages ==
    {[type |-> "bad_json", text |-> <<>>, audio |-> "none"],
     [type |-> "ping", text |-> <<>>, audio |-> "none"],
     [type |-> "unknown", text |-> <<>>, audio |-> "none"]}
    \cup {[type |-> "text_input", text |-> x, audio |-> "none"] : x \in InTexts}
    \cup {[type |-> "audio_input", text |-> <<>>, audio |-> a] : a \in AudioData}

Closed == [type |-> "closed", text |-> <<>>, audio |-> "none"]

\* mutant of HandleTextInput: the handler returns to the receive loop once the
\* processing envelope is sent, leaving the rest of the handling behind
HandleTextInputDetached(m) ==
    LET text == Strip(m.t.msg.text)
    IN  IF text = <<>> THEN SendThenLoop(m, "error")
        ELSE TrySend(m, "processing", "loop")

\* handle_text_input up to its first await
HandleTextInput(m) ==
    LET text == Strip(m.t.msg.text)
    IN  IF text = <<>> THEN SendThenLoop(m, "error")
        ELSE TrySend(m, "processing", "pipe_text")

\* handle_audio_input up to its first await
HandleAudioInput(m) ==
    IF m.t.msg.audio = "missing" THEN SendThenLoop(m, "error")
    ELSE TrySend(m, "processing", "decode")

\* mutant of ProcessWebsocketMessage: no ping branch, a ping is answered as a
\* message of unknown type
ProcessWebsocketMessageNoPing(m) ==
    CASE m.t.msg.type = "text_input" -> HandleTextInput(m)
      [] m.t.msg.type = "audio_input" -> HandleAudioInput(m)
      [] OTHER -> SendThenLoop(m, "error")

\* process_websocket_message
ProcessWebsocketMessage(m) ==
    CASE m.t.msg.type = "text_input" -> HandleTextInput(m)
      [] m.t.msg.type = "audio_input" -> HandleAudioInput(m)
      [] m.t.msg.type = "ping" -> SendThenLoop(m, "pong")
      [] OTHER -> SendThenLoop(m, "error")

\* What follows a send_personal_message that has returned (pc "cont").
Continue(m, o) ==
    IF m.t.pc # "cont" THEN m
    ELSE CASE m.t.k = "loop" -> LoopTop(m)
           [] m.t.k = "pipe_text" -> ProcessTextInput(m, Strip(m.t.msg.text), o)
           [] m.t.k = "decode" ->
                \* base64.b64decode(audio_data_b64)
                IF m.t.msg.audio = "bad_b64" THEN SendThenLoop(m, "error")
                ELSE ProcessAudioInput(m, o)

\* websocket_endpoint from the return of receive_text to the first await
OnFrame(m, msg, o) ==
    LET u == m.t.uid
        m0 == [m EXCEPT !.t.msg = msg, !.t.nmsg = @ + 1]
    IN  IF msg.type = "bad_json"
        THEN \* json.loads raises JSONDecodeError
             SendThenLoop(m0, "error")
        ELSE LET m1 == IF u \in DOMAIN m0.um
                       THEN [m0 EXCEPT !.um[u].message_count = @ + 1]
                       ELSE m0
             IN  Continue(ProcessWebsocketMessage(m1), o)

\* receive_text raises: the inner `except Exception` sends an error envelope
\* and the loop goes on
OnReceiveRaises(m) ==
    LoopTop([m EXCEPT !.t.disc = TRUE, !.t.msg = Closed])

\* mutant of OnAccepted: no welcome message, the endpoint enters its loop
OnAcceptedNoWelcome(m, c) ==
    LET u == m.t.uid
        m1 == [m EXCEPT !.ws[c].st = "open",
                        !.ac = DictSet(m.ac, u, c),
                        !.um = DictSet(m.um, u, [message_count |-> 0])]
    IN  LoopTop(m1)

\* ConnectionManager.connect after accept, then the welcome message
OnAccepted(m, c) ==
    LET u == m.t.uid
        m1 == [m EXCEPT !.ws[c].st = "open",
                        !.ac = DictSet(m.ac, u, c),
                        !.um = DictSet(m.um, u, [message_count |-> 0])]
    IN  TrySend(m1, "system", "loop")

\* mutant of OnSendReturned: a failed send leaves the registry alone
OnSendReturnedKeep(m, o) ==
    Continue([m EXCEPT !.t.pc = "cont"], o)

\* send_personal_message after its await: the metadata update (KeyError when
\* the user has been removed meanwhile) or the except branch, both ending in
\* disconnect; then the caller's continuation
OnSendReturned(m, o) ==
    LET u == m.t.uid
        ok == m.ws[m.t.target].st = "open"
        m1 == IF ok /\ u \in DOMAIN m.um THEN m ELSE Disconnect(m, u)
    IN  Continue([m1 EXCEPT !.t.pc = "cont"], o)

\* ---------------------------------------------------------------- actions
Apply(m) ==
    /\ active_connections' = m.ac
    /\ user_metadata' = m.um
    /\ user_sessions' = m.us
    /\ ws' = m.ws
    /\ blocked' = m.blocked
    /\ last' = m.last
    /\ appendLog' = m.log
    /\ nexch' = m.n
    /\ cfg' = cfg
    /\ tts' = tts

\* The event loop runs coroutines (and the ghost `last` has been read).
Running == ~blocked /\ last.origin = "none"

\* ghost: forget the completed handling before anything else happens
Observe ==
    /\ last.origin # "none"
    /\ last' = NoLast
    /\ UNCHANGED <<active_connections, user_metadata, user_sessions, cfg, ws, ep,
                   http, blocked, appendLog, nexch, tts>>

ApplyEp(c, m) == Apply(m) /\ ep' = [ep EXCEPT ![c] = m.t] /\ http' = http
ApplyHttp(h, m) == Apply(m) /\ http' = [http EXCEPT ![h] = m.t] /\ ep' = ep

\* The frames received so far, all connections together.
RECURSIVE SumFrames(_)
SumFrames(cs) ==
    IF cs = {} THEN 0
    ELSE LET c == CHOOSE x \in cs : TRUE IN ep[c].nmsg + SumFrames(cs \ {c})

FramesSent == SumFrames(Conns)

\* The connections opened, frames sent and HTTP requests made so far.
InputsUsed ==
    Cardinality({c \in Conns : ws[c].st # "new"}) + FramesSent
    + Cardinality({h \in Https : http[h].pc # "idle"})

\* A client opens /ws/{user_id}: websocket_endpoint starts and awaits accept.
ClientConnect(c, u) ==
    /\ Running
    /\ ws[c].st = "new"
    /\ \A d \in Conns : d < c => ws[d].st # "new"
    /\ InputsUsed < MaxInputs
    /\ c = 1 => u = "u1"      \* the users are interchangeable
    /\ ws' = [ws EXCEPT ![c] = [st |-> "connecting", uid |-> u, first |-> "-"]]
    /\ ep' = [ep EXCEPT ![c].pc = "accept", ![c].uid = u]
    /\ UNCHANGED <<active_connections, user_metadata, user_sessions, cfg, http,
                   blocked, last, appendLog, nexch, tts>>

\* The client closes the connection, or the transport fails.
ClientClose(c) ==
    /\ last.origin = "none"
    /\ ws[c].st \in {"connecting", "open"}
    /\ ws' = [ws EXCEPT ![c].st = "client_closed"]
    /\ UNCHANGED <<active_connections, user_metadata, user_sessions, cfg, ep, http,
                   blocked, last, appendLog, nexch, tts>>

\* websocket.accept() returns (or raises out of the endpoint: the client left).
AcceptReturn(c) ==
    /\ Running
    /\ ep[c].pc = "accept"
    /\ IF ws[c].st = "connecting"
       THEN ApplyEp(c, OnAccepted(Machine(ep[c]), c))
       ELSE ApplyEp(c, [Machine(ep[c]) EXCEPT !.t.pc = "done"])

\* websocket.send_text() returns or raises.
SendReturn(c) ==
    /\ Running
    /\ ep[c].pc = "send"
    /\ \E o \in OraclesAt(ep[c]) : ApplyEp(c, OnSendReturned(Machine(ep[c]), o))

\* websocket.receive_text() returns a frame.
ReceiveFrame(c) ==
    /\ Running
    /\ ep[c].pc = "recv"
    /\ ws[c].st = "open"
    /\ InputsUsed < MaxInputs
    /\ \E msg \in Messages, o \in OraclesAt(ep[c]) :
           ApplyEp(c, OnFrame(Machine(ep[c]), msg, o))

\* websocket.receive_text() raises WebSocketDisconnect.
ReceiveDisconnect(c) ==
    /\ Running
    /\ ep[c].pc = "recv"
    /\ ws[c].st \in {"client_closed", "server_closed"}
    /\ ApplyEp(c, OnReceiveRaises(Machine(ep[c])))

\* An awaited pipeline stage of a websocket session answers.
StageReturn(c) ==
    /\ Running
    /\ ep[c].pc \in Stages
    /\ \E out \in Outcomes(ep[c].pc), o \in OraclesAt(ep[c]) :
           ApplyEp(c, Return(Machine(ep[c]), ep[c].pc, out, o))

HttpTexts == {<<"h", "i">>}

\* POST /api/test-text: test_text_processing
HttpTestText(h, u) ==
    /\ Running
    /\ http[h].pc = "idle"
    /\ \A g \in Https : g < h => http[g].pc # "idle"
    /\ InputsUsed < MaxInputs
    /\ \E text \in HttpTexts, o \in OraclesAt(http[h]) :
           ApplyHttp(h, ProcessTextInput(
               Machine([http[h] EXCEPT !.uid = u, !.k = "test_text"]), text, o))

\* An awaited pipeline stage of a test-text request answers.
HttpStageReturn(h) ==
    /\ Running
    /\ http[h].pc \in Stages
    /\ \E out \in Outcomes(http[h].pc), o \in OraclesAt(http[h]) :
           ApplyHttp(h, Return(Machine(http[h]), http[h].pc, out, o))

\* DELETE /api/user/{user_id}/disconnect: force_disconnect_user up to close()
HttpForceDisconnect(h, u) ==
    /\ Running
    /\ http[h].pc = "idle"
    /\ \A g \in Https : g < h => http[g].pc # "idle"
    /\ InputsUsed < MaxInputs
    /\ LET m == Machine([http[h] EXCEPT !.uid = u, !.k = "force_disconnect"])
       IN  IF u \in DOMAIN active_connections
           THEN ApplyHttp(h, [m EXCEPT !.t.pc = "closing",
                                       !.t.target = active_connections[u]])
           ELSE ApplyHttp(h, HttpReturn(m, 404))

\* force_disconnect_user after close(): disconnect, or HTTP 500 when close raised
OnCloseReturned(m, ok) ==
    IF ok
    THEN HttpReturn(Disconnect([m EXCEPT !.ws[m.t.target].st = "server_closed"],
                               m.t.uid), 200)
    ELSE HttpReturn(m, 500)

\* websocket.close() returns or raises.  Closing a websocket the server has
\* closed already raises; on one the client has left it may do either.
CloseReturn(h) ==
    /\ Running
    /\ http[h].pc = "closing"
    /\ \E ok \in BOOLEAN :
         /\ ws[http[h].target].st = "open" => ok
         /\ ws[http[h].target].st = "server_closed" => ~ok
         /\ ApplyHttp(h, OnCloseReturned(Machine(http[h]), ok))

Configs == [did : BOOLEAN, storage : BOOLEAN]

InitBase ==
    /\ active_connections = EmptyDict
    /\ user_metadata = EmptyDict
    /\ user_sessions = EmptyDict
    /\ ws = [c \in Conns |-> [st |-> "new", uid |-> "-", first |-> "-"]]
    /\ ep = [c \in Conns |-> IdleTask("ws", c)]
    /\ http = [h \in Https |-> IdleTask("http", h)]
    /\ blocked = FALSE
    /\ last = NoLast
    /\ appendLog = [u \in Users |-> <<>>]
    /\ nexch = 0

\* No synthesize_speech call is looked at on its own.
NoSpeech == [text |-> <<>>, lead |-> 0, n |-> 0, input |-> <<>>, called |-> FALSE]

Init == InitBase /\ cfg \in Configs /\ tts = NoSpeech

Next ==
    \/ \E c \in Conns, u \in Users : ClientConnect(c, u)
    \/ \E c \in Conns : ClientClose(c)
    \/ \E c \in Conns : AcceptReturn(c)
    \/ \E c \in Conns : SendReturn(c)
    \/ \E c \in Conns : ReceiveFrame(c)
    \/ \E c \in Conns : ReceiveDisconnect(c)
    \/ \E c \in Conns : StageReturn(c)
    \/ \E h \in Https, u \in Users : HttpTestText(h, u)
    \/ \E h \in Https : HttpStageReturn(h)
    \/ \E h \in Https, u \in Users : HttpForceDisconnect(h, u)
    \/ \E h \in Https : CloseReturn(h)
    \/ Observe

Spec == Init /\ [][Next]_vars

\* --------------------------------------------------- the history on its own
\* _update_conversation_history applied to arbitrary sequences of exchanges.
AppendExchange(u) ==
    /\ nexch < MaxExchanges
    /\ last.origin = "none"
    /\ LET n == nexch + 1
           q == <<"q">> \o Numeral(n)
       IN  /\ nexch' = n
           /\ user_sessions' = UpdateConversationHistory(user_sessions, u, q, ResponseText(n))
           /\ appendLog' = [appendLog EXCEPT ![u] =
                               @ \o <<Turn("user", q), Turn("assistant", ResponseText(n))>>]
    /\ UNCHANGED <<active_connections, user_metadata, cfg, ws, ep, http, blocked, last,
                   tts>>

InitHistory == InitBase /\ cfg = [did |-> FALSE, storage |-> FALSE] /\ tts = NoSpeech

NextHistory == \E u \in Users : AppendExchange(u)

SpecHistory == InitHistory /\ [][NextHistory]_vars

\* process_text_input reads the user's history and generate_response builds
\* its messages from it; the call is published whatever generation then does.
ReadContext(u) ==
    /\ last.origin = "none"
    /\ last' = [NoLast EXCEPT !.origin = "context", !.uid = u,
                              !.p.ctx = ContextWindowOf(user_sessions, u),
                              !.p.before = DictGet(user_sessions, u, <<>>)]
    /\ UNCHANGED <<active_connections, user_metadata, user_sessions, cfg, ws, ep,
                   http, blocked, appendLog, nexch, tts>>

NextContext ==
    \/ \E u \in Users : AppendExchange(u)
    \/ \E u \in Users : ReadContext(u)
    \/ Observe

SpecContext == InitHistory /\ [][NextContext]_vars

\* The service with the history earlier, completed pipeline calls of one user
\* have left: k exchanges appended by _update_conversation_history, the
\* pipeline object outliving every connection and request.
RECURSIVE EarlierSessions(_, _)
EarlierSessions(u, k) ==
    IF k = 0 THEN EmptyDict
    ELSE UpdateConversationHistory(EarlierSessions(u, k - 1), u,
                                   <<"h", "i">>, ResponseText(k))

EarlierLog(k) ==
    [i \in 1..(2 * k) |->
        IF i % 2 = 1 THEN Turn("user", <<"h", "i">>)
        ELSE Turn("assistant", ResponseText(i \div 2))]

InitReconnect ==
    /\ active_connections = EmptyDict
    /\ user_metadata = EmptyDict
    /\ ws = [c \in Conns |-> [st |-> "new", uid |-> "-", first |-> "-"]]
    /\ ep = [c \in Conns |-> IdleTask("ws", c)]
    /\ http = [h \in Https |-> IdleTask("http", h)]
    /\ blocked = FALSE
    /\ last = NoLast
    /\ nexch = 0
    /\ cfg \in Configs
    /\ tts = NoSpeech
    /\ \E u \in Users, k \in {1, MaxEarlier} :
           /\ user_sessions = EarlierSessions(u, k)
           /\ appendLog = [v \in Users |-> IF v = u THEN EarlierLog(k) ELSE <<>>]

SpecReconnect == InitReconnect /\ [][Next]_vars

\* -------------------------------------------------- synthesis on its own
\* mutant of SpeechInput: the text is cut as soon as it reaches the limit
SpeechInputCutsAtLimit(text) ==
    LET clean_text == Strip(text)
    IN  IF Len(clean_text) >= TTSLimit
        THEN SubSeq(clean_text, 1, TTSLimit) \o <<".", ".", ".">>
        ELSE clean_text

\* TTSService.synthesize_speech: the `input` handed to audio.speech.create
SpeechInput(text) ==
    LET clean_text == Strip(text)
    IN  IF Len(clean_text) > TTSLimit
        THEN SubSeq(clean_text, 1, TTSLimit) \o <<".", ".", ".">>
        ELSE clean_text

\* The body lengths tried: the short ones and those around the limit.
BodyLengths == (0..MaxOver) \cup ((TTSLimit - MaxOver)..(TTSLimit + MaxOver))

\* TTSService.synthesize_speech is called with tts.text.
SynthesizeSpeech ==
    /\ ~tts.called
    /\ tts' = [tts EXCEPT !.input = SpeechInput(tts.text), !.called = TRUE]
    /\ UNCHANGED <<active_connections, user_metadata, user_sessions, cfg, ws, ep,
                   http, blocked, last, appendLog, nexch>>

InitTTS ==
    /\ InitBase
    /\ cfg = [did |-> FALSE, storage |-> FALSE]
    /\ \E lead \in 0..MaxPad, trail \in 0..MaxPad, n \in BodyLengths :
           tts = [NoSpeech EXCEPT !.text = Pad(lead) \o Body(n) \o Pad(trail),
                                  !.lead = lead, !.n = n]

NextTTS == SynthesizeSpeech

SpecTTS == InitTTS /\ [][NextTTS]_vars

\* ------------------------------------------------------ the health probe
\* The optional backends of a deployment: DID_API_KEY, the Azure storage
\* credentials and REDIS_URL.
HealthConfigs == [did : BOOLEAN, storage : BOOLEAN, redis : BOOLEAN]

\* health_status["services"] while health_check fills it in
NoServices ==
    [status |-> "health", llm |-> "-", did |-> "-", azure_storage |-> "-",
     redis |-> "-"]

\* GET /health: health_check returned, the handler adds the server status
HealthReturn(m) == HttpReturn(m, 200)

\* GET /health: health_check raised, the handler's `except Exception` answers 500
HealthRaised(m, error) ==
    HttpReturn([m EXCEPT !.t.p.result = [status |-> "raised", error |-> error]], 500)

\* health_check from the end of the D-ID check to the next await: the Azure
\* storage check reads self.did.storage_service, which DIDService.__init__
\* sets only when DID_API_KEY is set, and is inside no try block; then
\* queue_service.connect(), which awaits a ping only when REDIS_URL is set
HealthAfterDid(m, did) ==
    LET m1 == [m EXCEPT !.t.p.result.did = did]
    IN  IF ~cfg.did THEN HealthRaised(m1, "AttributeError")
        ELSE LET m2 == [m1 EXCEPT !.t.p.result.azure_storage =
                                      IF cfg.storage THEN "healthy"
                                      ELSE "not configured"]
             IN  IF cfg.redis THEN [m2 EXCEPT !.t.pc = "health_redis"]
                 ELSE HealthReturn([m2 EXCEPT !.t.p.result.redis = "not configured"])

\* ServerlessAvatarPipeline.health_check up to its first await: the LLM check
\* (the blocking client), then the D-ID check
HealthCheck(m, llm) ==
    LET m1 == [m EXCEPT !.t.p.result =
                            [NoServices EXCEPT !.llm = IF llm = "ok" THEN "healthy"
                                                       ELSE "unhealthy: error"]]
    IN  IF cfg.did THEN [m1 EXCEPT !.t.pc = "health_did"]
        ELSE HealthAfterDid(m1, "not configured")

\* What the D-ID check reports for the answer of GET /talks.
DidHealth(out) ==
    CASE out \in {"200", "401"} -> "healthy"
      [] out = "raise" -> "unhealthy: error"
      [] OTHER -> "unhealthy: HTTP 500"

\* GET /health arrives.
HttpHealth(h) ==
    /\ Running
    /\ http[h].pc = "idle"
    /\ \A g \in Https : g < h => http[g].pc # "idle"
    /\ InputsUsed < MaxInputs
    /\ \E llm \in {"ok", "raise"} :
           ApplyHttp(h, HealthCheck(Machine([http[h] EXCEPT !.k = "health"]), llm))

\* The GET /talks of the D-ID check answers.
HealthDidReturn(h) ==
    /\ Running
    /\ http[h].pc = "health_did"
    /\ \E out \in {"200", "401", "500", "raise"} :
           ApplyHttp(h, HealthAfterDid(Machine(http[h]), DidHealth(out)))

\* The ping of queue_service.connect() answers: on failure connect() resets
\* redis_client to None and returns.
HealthRedisReturn(h) ==
    /\ Running
    /\ http[h].pc = "health_redis"
    /\ \E pong \in BOOLEAN :
           ApplyHttp(h, HealthReturn([Machine(http[h]) EXCEPT !.t.p.result.redis =
                                         IF pong THEN "healthy" ELSE "not configured"]))

InitHealth == InitBase /\ cfg \in HealthConfigs /\ tts = NoSpeech

NextHealth ==
    \/ \E h \in Https : HttpHealth(h)
    \/ \E h \in Https : HealthDidReturn(h)
    \/ \E h \in Https : HealthRedisReturn(h)
    \/ Observe

SpecHealth == InitHealth /\ [][NextHealth]_vars

\* ConnectionManager.get_connection_stats
GetConnectionStats ==
    [total_connections |-> Cardinality(DOMAIN active_connections),
     users |-> DOMAIN active_connections,
     metadata |-> user_metadata]

\* ------------------------------------------------------------------ claims
\* The coroutines that can hold a pipeline call, and the completed handling.
CallIds == ({"ws"} \X Conns) \cup ({"http"} \X Https) \cup {<<"last", 0>>}

CallAt(i) ==
    CASE i[1] = "ws" -> [uid |-> ep[i[2]].uid, p |-> ep[i[2]].p]
      [] i[1] = "http" -> [uid |-> http[i[2]].uid, p |-> http[i[2]].p]
      [] OTHER -> [uid |-> last.uid, p |-> last.p]

\* The calls that have appended their exchange.
Appended == {i \in CallIds : CallAt(i).p.logpos > 0}

\* The coroutines suspended inside a pipeline call.
InFlight ==
    {i \in ({"ws"} \X Conns) : ep[i[2]].pc \in Stages}
    \cup {i \in ({"http"} \X Https) : http[i[2]].pc \in Stages}

\* C1: after any sequence of exchanges appended by _update_conversation_history
\* every user's history has at most 20 turns, and it is exactly the most
\* recent turns appended, in the order they were appended: all of them while
\* at most 10 exchanges have been appended, the last 10 exchanges after that.
C1_HistoryIsLastTenExchanges ==
    \A u \in Users :
        LET h == DictGet(user_sessions, u, <<>>)
            n == Len(appendLog[u])
        IN  /\ Len(h) <= HistoryLimit
            /\ n <= HistoryLimit => h = appendLog[u]
            /\ n > HistoryLimit => h = SubSeq(appendLog[u], n - HistoryLimit + 1, n)

\* An eleventh exchange has been appended for a user and the oldest one evicted.
C1_Witness ==
    \E u \in Users :
        /\ Len(appendLog[u]) > HistoryLimit
        /\ u \in DOMAIN user_sessions
        /\ Len(user_sessions[u]) = HistoryLimit
        /\ user_sessions[u][1] # appendLog[u][1]

\* The pipeline stage of the claims an awaited call belongs to: transcription,
\* generation, synthesis, rendering.
StageRank(stage) ==
    CASE stage = "stt" -> 1
      [] stage = "llm" -> 2
      [] stage = "tts" -> 3
      [] OTHER -> 4

\* C2: a pipeline call in which a stage failed returns a failed result with an
\* error description and a timestamp and has invoked no stage after the failed
\* one (after a transcription failure nothing but transcription was invoked);
\* a call returns success only when no stage failed and every stage ran.
C2_FailureShortCircuits ==
    last.p.kind # "none" =>
        LET p == last.p
            r == p.result
            ranks == {StageRank(p.inv[i]) : i \in DOMAIN p.inv}
        IN  /\ r.status \in {"success", "failed"}
            /\ p.failed # "none" =>
                   /\ r.status = "failed"
                   /\ {"error", "timestamp"} \subseteq DOMAIN r
                   /\ \A k \in ranks : k <= StageRank(p.failed)
            /\ p.failed = "stt" => p.inv = <<"stt">>
            /\ p.failed = "llm" => p.inv[Len(p.inv)] = "llm"
            /\ p.failed = "tts" => p.inv[Len(p.inv)] = "tts"
            /\ p.failed = "upload" => p.inv[Len(p.inv)] = "upload"
            /\ r.status = "success" =>
                   /\ p.failed = "none"
                   /\ ranks = (IF p.kind = "audio" THEN 1..4 ELSE 2..4)

\* A call whose transcription failed has returned.
C2_Witness ==
    /\ last.p.kind = "audio"
    /\ last.p.failed = "stt"
    /\ last.p.result.status = "failed"

\* C3: a process_text_input call in which every stage succeeded returns a
\* success result with the text and the token count generation returned, and
\* its update of the history appended exactly two turns: the user turn with the
\* input text, then the assistant turn with the response text.
C3_TextSuccess ==
    (last.p.kind = "text" /\ last.p.failed = "none") =>
        LET p == last.p
            r == p.result
            n == Len(p.after)
        IN  /\ r.status = "success"
            /\ r.ai_response_text = p.resp
            /\ r.tokens_used = p.tokens
            /\ r.input = p.text
            /\ n >= 2
            /\ p.after[n - 1] = Turn("user", p.text)
            /\ p.after[n] = Turn("assistant", p.resp)
            /\ SubSeq(p.after, 1, n - 2) = LastN(p.before, n - 2)
            /\ n < HistoryLimit => n = Len(p.before) + 2
            /\ appendLog[last.uid][p.logpos - 1] = Turn("user", p.text)
            /\ appendLog[last.uid][p.logpos] = Turn("assistant", p.resp)

\* A text call of a user who already had a history has returned success.
C3_Witness ==
    /\ last.p.kind = "text"
    /\ last.p.result.status = "success"
    /\ last.p.before # <<>>
    /\ last.p.tokens > 0

\* C4: exchanges appended by overlapping calls for one user are all in the
\* user's history (no update is lost: the history is the last 20 turns ever
\* appended), each call's user turn is immediately followed by its own
\* assistant turn, and no two calls share a position.
C4_ConcurrentAppends ==
    /\ \A u \in Users :
           DictGet(user_sessions, u, <<>>) = LastN(appendLog[u], HistoryLimit)
    /\ \A i \in Appended :
           LET x == CallAt(i)
           IN  /\ x.p.logpos <= Len(appendLog[x.uid])
               /\ x.p.logpos % 2 = 0
               /\ appendLog[x.uid][x.p.logpos - 1] = Turn("user", x.p.text)
               /\ appendLog[x.uid][x.p.logpos] = Turn("assistant", x.p.resp)
    /\ \A i, j \in Appended :
           (i # j /\ CallAt(i).uid = CallAt(j).uid)
               => CallAt(i).p.logpos # CallAt(j).p.logpos

\* Two calls for one user are in flight, both have appended, and the history
\* holds the four turns.
C4_Witness ==
    \E i, j \in InFlight :
        /\ i # j
        /\ CallAt(i).uid = CallAt(j).uid
        /\ CallAt(i).p.logpos = 2
        /\ CallAt(j).p.logpos = 4
        /\ Len(user_sessions[CallAt(i).uid]) = 4

\* C5: no other call's append falls between a call's read of the context
\* window and its own append: the context a call passed to generation is the
\* window on the user's turns as they stood right before its own two turns, so
\* a call that appends second has the first call's exchange in its context.
C5_ContextIsCurrent ==
    \A i \in Appended :
        LET x == CallAt(i)
        IN  /\ x.p.ctx = LastN(SubSeq(appendLog[x.uid], 1, x.p.logpos - 2),
                               ContextWindow)
            /\ x.p.before = LastN(SubSeq(appendLog[x.uid], 1, x.p.logpos - 2),
                                  HistoryLimit)

\* A websocket message and a test-text request of one user overlap in time:
\* both calls are in flight, and the one that appended second had the other's
\* exchange in its context.
C5_Witness ==
    \E c \in Conns, h \in Https :
        /\ ep[c].pc \in Stages
        /\ http[h].pc \in Stages
        /\ ep[c].uid = http[h].uid
        /\ ep[c].p.logpos = 2
        /\ http[h].p.logpos = 4
        /\ http[h].p.ctx = <<Turn("user", ep[c].p.text), Turn("assistant", ep[c].p.resp)>>

\* C6: a frame handled, without a pipeline call, on a session whose user is not
\* registered has all its envelopes delivered to nobody and changes neither the registry, the
\* metadata, the websockets nor the histories, and the loop goes on to the next
\* receive; and a send that ends in disconnect for a user who has already been
\* removed leaves the registry and the metadata as they were.
C6_SendAfterDisconnectIsNoOp ==
    [][\A c \in Conns :
          /\ ( /\ ep[c].pc = "recv"
               /\ ep[c].uid \notin DOMAIN active_connections
               /\ ep'[c].nmsg = ep[c].nmsg + 1
               /\ last'.origin = "ws" /\ last'.id = c
               /\ last'.p.kind = "none" )
             => /\ active_connections' = active_connections
                /\ user_metadata' = user_metadata
                /\ user_sessions' = user_sessions
                /\ ws' = ws
                /\ last'.sent # <<>>
                /\ \A k \in DOMAIN last'.sent : last'.sent[k].to = NoConn
                /\ ep'[c].pc = "recv"
          /\ ( /\ ep[c].pc = "send"
               /\ ep[c].uid \notin DOMAIN active_connections
               /\ ep[c].uid \notin DOMAIN user_metadata
               /\ ep'[c] # ep[c] )
             => /\ active_connections' = active_connections
                /\ user_metadata' = user_metadata
      ]_vars

\* A frame has been handled on an open connection whose user had been
\* disconnected: its envelope went to nobody.
C6_Witness ==
    /\ last.origin = "ws"
    /\ last.sent # <<>>
    /\ \A k \in DOMAIN last.sent : last.sent[k].to = NoConn
    /\ last.uid \notin DOMAIN active_connections
    /\ ws[last.id].st = "open"

\* C7: when the delivery attempt of send_personal_message fails, the call
\* returns to its caller (the coroutine goes on with what follows the send) and
\* the user is then in neither active_connections nor user_metadata.
C7_FailedSendRemoves ==
    [][\A c \in Conns :
          ( /\ ep[c].pc = "send"
            /\ ws[ep[c].target].st # "open"
            /\ ep'[c] # ep[c] )
          => /\ ep[c].uid \notin DOMAIN active_connections'
             /\ ep[c].uid \notin DOMAIN user_metadata'
             /\ ep'[c].pc \in {"recv", "spin"} \cup Stages
      ]_vars

\* A failed delivery has removed the registration of the coroutine's user.
C7_Witness ==
    \E c \in Conns :
        /\ ep[c].removed
        /\ ws[c].st = "client_closed"
        /\ ep[c].uid \notin DOMAIN active_connections
        /\ ep[c].uid \notin DOMAIN user_metadata

\* The connection's client has left and the connection is still the one
\* registered under its user id.
EndedAndRegistered(c) ==
    /\ ws[c].st = "client_closed"
    /\ ep[c].uid \in DOMAIN active_connections
    /\ active_connections[ep[c].uid] = c
    /\ ep[c].uid \in DOMAIN user_metadata

\* C8: whenever a client's connection has ended its session is eventually
\* removed from active_connections and user_metadata.  Every step of every
\* coroutine needs the event loop (Running), and a loop held by a coroutine
\* that never suspends stays held; so the claim requires that while an ended
\* session is still registered the loop is free to run the coroutine that
\* removes it.
C8_EndedSessionRemoved ==
    \A c \in Conns : EndedAndRegistered(c) => ~blocked

\* C9: a text_input frame whose text is empty or whitespace produces exactly
\* one envelope, an error envelope delivered on the connection the frame came
\* from, and no process_text_input call.
C9_EmptyTextRejected ==
    ( /\ last.origin = "ws"
      /\ last.msg.type = "text_input"
      /\ Strip(last.msg.text) = <<>> )
    => /\ last.sent = <<[type |-> "error", to |-> last.id]>>
       /\ last.p.kind = "none"

\* C10: an audio_input frame whose audio_data is missing or does not decode,
\* on a connection whose client is still there, produces an error envelope
\* delivered on that connection and no process_audio_input call, and leaves the
\* session registered and its endpoint in the receive loop.
C10_BadAudioRejected ==
    ( /\ last.origin = "ws"
      /\ last.msg.type = "audio_input"
      /\ last.msg.audio \in {"missing", "bad_b64"}
      /\ ws[last.id].st = "open" )
    => /\ last.sent # <<>>
       /\ last.sent[Len(last.sent)] = [type |-> "error", to |-> last.id]
       /\ last.p.kind = "none"
       /\ last.uid \in DOMAIN active_connections
       /\ active_connections[last.uid] = last.id
       /\ last.uid \in DOMAIN user_metadata
       /\ ep[last.id].pc \in {"send", "recv"}
       /\ ~ep[last.id].disc

\* C11: a frame that is not valid JSON, or a JSON message of an unknown type,
\* on a connection whose client is still there, produces exactly one envelope,
\* an error envelope delivered on the connection the frame came from, and no
\* pipeline call; the handling removes no registration and the session is
\* still registered with its own websocket.
C11_BadFrameRejected ==
    ( /\ last.origin = "ws"
      /\ last.msg.type \in {"bad_json", "unknown"}
      /\ ws[last.id].st = "open" )
    => /\ last.sent = <<[type |-> "error", to |-> last.id]>>
       /\ last.p.kind = "none"
       /\ ~last.removed
       /\ last.uid \in DOMAIN active_connections
       /\ active_connections[last.uid] = last.id
       /\ last.uid \in DOMAIN user_metadata

\* The final envelope type a handler sends for a pipeline result.
FinalEnvelope(kind, status) ==
    IF status = "success"
    THEN (IF kind = "text" THEN "text_response" ELSE "audio_response")
    ELSE "error"

\* A frame that reaches the orchestrator: non-empty text or decodable audio.
IsPipelineInput(msg) ==
    \/ msg.type = "text_input" /\ Strip(msg.text) # <<>>
    \/ msg.type = "audio_input" /\ msg.audio = "ok"

\* C12: the handling of a text_input with non-empty text or an audio_input with
\* decodable audio, on a connection that is still open when the handling ends,
\* has made one pipeline call and produced exactly two envelopes, both
\* delivered on the connection the frame came from: a processing envelope
\* first, then the final envelope, text_response / audio_response for a
\* success result and error for a failed one.
C12_ProcessingThenFinal ==
    ( /\ last.origin = "ws"
      /\ IsPipelineInput(last.msg)
      /\ ws[last.id].st = "open" )
    => /\ last.p.kind = (IF last.msg.type = "text_input" THEN "text" ELSE "audio")
       /\ last.p.result.status \in {"success", "failed"}
       /\ last.sent =
              <<[type |-> "processing", to |-> last.id],
                [type |-> FinalEnvelope(last.p.kind, last.p.result.status),
                 to |-> last.id]>>

\* C13: when the pipeline call of a frame returns a failed result, on a
\* connection whose client is still there, the last envelope of the handling is
\* an error envelope delivered on the connection the frame came from, the
\* handling has removed no registration, the session is still registered with
\* its own websocket, and its endpoint is in the receive loop.
C13_FailureKeepsSession ==
    ( /\ last.origin = "ws"
      /\ last.p.result.status = "failed"
      /\ ws[last.id].st = "open" )
    => /\ last.sent # <<>>
       /\ last.sent[Len(last.sent)] = [type |-> "error", to |-> last.id]
       /\ ~last.removed
       /\ last.uid \in DOMAIN active_connections
       /\ active_connections[last.uid] = last.id
       /\ last.uid \in DOMAIN user_metadata
       /\ ep[last.id].pc \in {"send", "recv"}
       /\ ~ep[last.id].disc

\* The pipeline call connection c's coroutine holds after a step: the one it
\* is still inside, or the one the step has completed and published.
CallAfterStep(c) ==
    IF ep'[c].p.kind # "none" THEN ep'[c].p
    ELSE IF last.origin = "none" /\ last'.origin = "ws" /\ last'.id = c THEN last'.p
    ELSE NoCall

\* The step invokes the stage on behalf of connection c.
StepInvokes(c, stage) ==
    LET old == ep[c].p.inv
        new == CallAfterStep(c).inv
    IN  \E i \in DOMAIN new : i > Len(old) /\ new[i] = stage

\* C14: while a session's pipeline call is inside transcription, generation or
\* synthesis the other sessions are not stalled.  Coroutines of one event loop
\* run one at a time, so another session's message can be received and answered
\* before the stage returns only if the calling coroutine is suspended inside
\* the stage: every step that invokes one of these stages leaves its coroutine
\* waiting in that stage.
C14_StagesYield ==
    [][\A c \in Conns : \A stage \in {"stt", "llm", "tts"} :
          StepInvokes(c, stage) => ep'[c].pc = stage
      ]_vars

\* Connection c's coroutine is between two frames: nothing of a handling is
\* left in it.
BetweenFrames(t) ==
    /\ t.msg = NoMsg
    /\ t.sent = <<>>
    /\ t.p = NoCall

\* C15: within one connection a frame starts to be handled only from the
\* receive the endpoint reaches after the handling of the previous frame has
\* finished (its final send has returned): whenever the endpoint waits in
\* receive_text, and whenever it takes a frame, no handling and no pipeline
\* call of an earlier frame is still under way; so a connection has at most one
\* pipeline call in flight and its final envelopes follow the arrival order.
C15_OneFrameAtATime ==
    [][\A c \in Conns :
          /\ ep'[c].nmsg # ep[c].nmsg
             => /\ ep'[c].nmsg = ep[c].nmsg + 1
                /\ ep[c].pc = "recv"
                /\ BetweenFrames(ep[c])
          /\ ep'[c].pc = "recv" => BetweenFrames(ep'[c])
          /\ (ep'[c].pc \in Stages /\ ep[c].pc \notin Stages)
             => /\ ep[c].p = NoCall
                /\ ep'[c].msg # NoMsg
      ]_vars

\* The second frame of a connection has been handled with a pipeline call,
\* after the handling of its first frame.
C15_Witness ==
    /\ last.origin = "ws"
    /\ ep[last.id].nmsg = 2
    /\ last.p.kind # "none"
    /\ last.sent # <<>>

\* Connection c's websocket is the one registered under its user id.
RegisteredAs(c) ==
    /\ ep[c].uid \in DOMAIN active_connections
    /\ active_connections[ep[c].uid] = c

\* C16: when a session that was registered at the start of its pipeline call
\* is no longer in the registry (removed, or replaced by another websocket),
\* the remaining stages still run to completion, so the event loop is free to
\* resume the call while it is in flight, and the final envelope of the call is
\* delivered to nobody and the send removes nothing.
C16_RemovedSessionResultDropped ==
    /\ \A c \in Conns :
           (ep[c].pc \in Stages /\ ep[c].p.regd /\ ~RegisteredAs(c)) => ~blocked
    /\ ( /\ last.origin = "ws"
         /\ last.p.regd
         /\ ~RegisteredAs(last.id) )
       => /\ last.sent[Len(last.sent)].to = NoConn
          /\ ~last.removed

\* C17: a pipeline call whose rendering completed and whose media-cache step
\* has answered returns success whatever the answer was (cache unconfigured,
\* download not 200 or raising, upload raising, upload done), and its video
\* URL is the CDN URL exactly when the download answered 200 and the upload
\* succeeded, the provider's URL otherwise.
C17_CacheNeverFails ==
    last.p.cache # <<>> =>
        /\ last.p.failed = "none"
        /\ last.p.result.status = "success"
        /\ last.p.cache = <<"200", "ok">> => last.p.result.avatar_video_url = "cdn"
        /\ last.p.cache # <<"200", "ok">> => last.p.result.avatar_video_url = "origin"
        /\ last.p.cache \in {<<"unconfigured">>, <<"non200">>, <<"raise">>,
                             <<"200", "raise">>, <<"200", "ok">>}

\* A call whose video was downloaded and whose upload to the cache raised has
\* returned the provider's URL.
C17_Witness ==
    /\ last.p.cache = <<"200", "raise">>
    /\ last.p.result.status = "success"
    /\ last.p.result.avatar_video_url = "origin"

\* The coroutine of a call in flight.
TaskAt(i) == IF i[1] = "ws" THEN ep[i[2]] ELSE http[i[2]]

\* The most polls a wait can make: one at the start, one more after every sleep
\* that ends before the maximum wait.
MaxPolls == ((MaxWait - 1) \div MinAdvance) + 1

\* C18: _wait_for_completion terminates in every execution.  While a call
\* waits in a status poll or in the sleep between two polls the event loop is
\* free to resume it, less than the maximum wait has elapsed and the number of
\* polls made is bounded; a call that failed in a poll (error or non-200
\* answer) or in the sleep that reached the maximum wait (the timeout) returns
\* a failed result, and a call returns a video only after a poll.
C18_WaitTerminates ==
    /\ \A i \in InFlight :
           TaskAt(i).pc \in {"poll", "sleep"}
               => /\ ~blocked
                  /\ TaskAt(i).p.elapsed < MaxWait
                  /\ TaskAt(i).p.polls \in 1..MaxPolls
    /\ last.p.failed \in {"poll", "sleep"}
           => /\ last.p.result.status = "failed"
              /\ last.p.polls \in 1..MaxPolls
              /\ last.p.cache = <<>>
    /\ last.p.failed = "sleep"
           => last.p.result.error = "Avatar generation failed: Video generation timeout"
    /\ last.p.cache # <<>> => last.p.polls \in 1..MaxPolls

\* C19: with the rendering provider unconfigured, a pipeline call whose earlier
\* stages succeeded uploads, submits and polls nothing, returns success, and
\* its result carries the placeholder mark that tells it from the result of a
\* real rendering.
C19_PlaceholderMarked ==
    ( /\ ~cfg.did
      /\ last.p.kind # "none"
      /\ last.p.failed = "none" )
    => /\ \A i \in DOMAIN last.p.inv : last.p.inv[i] \notin {"upload", "submit"}
       /\ last.p.polls = 0
       /\ last.p.result.status = "success"
       /\ "mock" \in DOMAIN last.p.result
       /\ last.p.result.mock

\* What a service entry of the health report may say.
HealthValues == {"healthy", "not configured", "unhealthy: error", "unhealthy: HTTP 500"}

\* C20: a health probe completes without raising for every combination of
\* configured and unconfigured rendering, cache and queue backends, and its
\* report says healthy, unhealthy:<reason> or not configured for each of llm,
\* rendering, cache and queue; with rendering unconfigured it says not
\* configured for rendering.
C20_HealthNeverRaises ==
    (last.origin = "http" /\ last.k = "health")
    => /\ last.http_status = 200
       /\ last.p.result.status = "health"
       /\ \A s \in {"llm", "did", "azure_storage", "redis"} :
              last.p.result[s] \in HealthValues
       /\ ~cfg.did => last.p.result.did = "not configured"
       /\ cfg.did => last.p.result.did # "not configured"

\* The text between the blanks of tts.text (what str.strip() must leave).
SpokenBody == SubSeq(tts.text, tts.lead + 1, tts.lead + tts.n)

\* C21: synthesize_speech hands the provider the stripped text unchanged when
\* it has at most 4000 characters, and its first 4000 characters followed by
\* "..." when it has more.
C21_SpeechInputTruncated ==
    tts.called =>
        /\ tts.n <= TTSLimit => tts.input = SpokenBody
        /\ tts.n > TTSLimit =>
               /\ Len(tts.input) = TTSLimit + 3
               /\ \A i \in 1..TTSLimit : tts.input[i] = SpokenBody[i]
               /\ \A i \in (TTSLimit + 1)..(TTSLimit + 3) : tts.input[i] = "."

\* A text of 4001 characters between blanks has been handed to synthesis and
\* the provider got its first 4000 characters and the marker.
C21_Witness ==
    /\ tts.called
    /\ tts.lead > 0
    /\ tts.n = TTSLimit + 1
    /\ Len(tts.input) = TTSLimit + 3
    /\ tts.input[TTSLimit] = tts.text[tts.lead + TTSLimit]

\* C22: the context handed to generation for a user is the last min(10, n)
\* turns of the user's history in their stored order, n being the length of
\* the history when the call reads it (no turns for a user without history),
\* and reading it changes no history.
C22_ContextIsLastTen ==
    [][(last.origin = "none" /\ last'.origin = "context") =>
          LET h == DictGet(user_sessions, last'.uid, <<>>)
              n == Len(h)
              k == IF n < ContextWindow THEN n ELSE ContextWindow
              ctx == last'.p.ctx
          IN  /\ Len(ctx) = k
              /\ \A i \in 1..k : ctx[i] = h[n - k + i]
              /\ last'.uid \notin DOMAIN user_sessions => ctx = <<>>
              /\ user_sessions' = user_sessions
      ]_vars

\* The context of a user with a full history of 20 turns has been read: the
\* ten most recent turns.
C22_Witness ==
    /\ last.origin = "context"
    /\ Len(last.p.before) = HistoryLimit
    /\ Len(last.p.ctx) = ContextWindow
    /\ last.p.ctx[1] = last.p.before[HistoryLimit - ContextWindow + 1]
    /\ last.p.ctx[1] # last.p.before[1]

\* C23: when the handshake of a connection succeeds the session is registered
\* in active_connections with its own websocket and in user_metadata with
\* message_count 0, and the welcome (system) envelope is sent on the
\* connection at once; whatever is sent on a connection, the welcome was the
\* first, and a frame of the connection is taken only after it.
C23_WelcomeFirst ==
    [][\A c \in Conns :
          /\ (ep[c].pc = "accept" /\ ws'[c].st = "open")
             => /\ ep[c].uid \in DOMAIN active_connections'
                /\ active_connections'[ep[c].uid] = c
                /\ ep[c].uid \in DOMAIN user_metadata'
                /\ user_metadata'[ep[c].uid].message_count = 0
                /\ ep'[c].pc = "send"
                /\ ep'[c].env = "system"
                /\ ep'[c].target = c
                /\ ep'[c].nmsg = 0
                /\ ws'[c].first = "system"
          /\ ws'[c].first \in {"-", "system"}
          /\ ep'[c].nmsg > ep[c].nmsg
             => /\ ws[c].first = "system"
                /\ ep[c].pc = "recv"
      ]_vars

\* A connection on which the welcome was sent first has had a frame handled
\* and its answer sent.
C23_Witness ==
    /\ last.origin = "ws"
    /\ last.sent # <<>>
    /\ last.sent[1].to = last.id
    /\ ws[last.id].first = "system"
    /\ ep[last.id].nmsg = 1

\* The websocket of connection c is the one registered under c's user id after
\* the step.
RegisteredAsAfter(c) ==
    /\ ep'[c].uid \in DOMAIN active_connections'
    /\ active_connections'[ep'[c].uid] = c

\* C24: a send that fails or a disconnect in the endpoint of one connection
\* never removes the registration of a different connection whose client is
\* still there: a connection that is registered and open stays registered
\* over every step another connection's endpoint takes out of a send.
C24_OtherRegistrationKept ==
    [][\A c, d \in Conns :
          ( /\ c # d
            /\ ep[d].pc = "send"
            /\ ep'[d] # ep[d]
            /\ RegisteredAs(c)
            /\ ws[c].st = "open" )
          => RegisteredAsAfter(c)
      ]_vars

\* C25: the final envelope of a pipeline call made for a frame (text_response,
\* audio_response or the pipeline's error) is delivered, if at all, on the
\* connection the frame was received on, never on another connection
\* registered under the same user id.
C25_ResultToOwnConnection ==
    ( /\ last.origin = "ws"
      /\ last.p.kind # "none" )
    => /\ last.sent # <<>>
       /\ last.sent[Len(last.sent)].type
              = FinalEnvelope(last.p.kind, last.p.result.status)
       /\ last.sent[Len(last.sent)].to \in {last.id, NoConn}

\* C26: once receive_text has reported the end of the client's connection
\* (WebSocketDisconnect raised in the receive loop) the endpoint has returned:
\* it is not at an await of a further iteration, nor iterating without
\* suspending.  The handler of the exception awaits nothing, so the return
\* belongs to the step in which the exception is raised.
C26_LoopEndsWithConnection ==
    \A c \in Conns : ep[c].disc => ep[c].pc = "done"

\* The locals of the pipeline call of coroutine i, and the same after a step:
\* a call that returned in the step is the one published in `last`.
CallOf(i) == IF i[1] = "ws" THEN ep[i[2]] ELSE http[i[2]]

CallOfAfter(i) ==
    IF /\ last.origin = "none" /\ last'.origin = i[1] /\ last'.id = i[2]
       /\ last'.p.kind # "none"
    THEN [uid |-> last'.uid, p |-> last'.p]
    ELSE [uid |-> CallOf(i)'.uid, p |-> CallOf(i)'.p]

GenerationSucceeded(p) ==
    /\ \E k \in DOMAIN p.inv : p.inv[k] = "llm"
    /\ p.failed # "llm"

EndsWithExchange(history, p) ==
    /\ Len(history) >= 2
    /\ history[Len(history) - 1] = Turn("user", p.text)
    /\ history[Len(history)] = Turn("assistant", p.resp)

\* C27: a pipeline call changes its user's history if and only if its
\* generation stage succeeded.  The step in which a call starts runs it up to
\* its first suspension or to its return: that step changes the history
\* exactly when generation succeeded in it, and then the user's history ends
\* with the call's two turns; a call that failed at transcription or
\* generation has left every history as it was.  No later step of the call
\* changes any history, and a call that fails after generation returns a
\* failed result with its two turns appended.
C27_HistoryChangedIffGenerated ==
    [][\A i \in ({"ws"} \X Conns) \cup ({"http"} \X Https) :
          LET x == CallOf(i)
              y == CallOfAfter(i)
          IN  /\ (x.p.kind = "none" /\ y.p.kind # "none") =>
                    /\ (user_sessions' # user_sessions) <=> GenerationSucceeded(y.p)
                    /\ GenerationSucceeded(y.p) =>
                          /\ y.uid \in DOMAIN user_sessions'
                          /\ EndsWithExchange(user_sessions'[y.uid], y.p)
                          /\ user_sessions'[y.uid] = y.p.after
                          /\ y.p.after # y.p.before
                    /\ y.p.failed \in {"stt", "llm"} =>
                          /\ user_sessions' = user_sessions
                          /\ y.p.logpos = 0
              /\ (x.p.kind # "none" /\ CallOf(i)' # x) =>
                    user_sessions' = user_sessions
              /\ (y.p.kind # "none" /\ y.p.failed \notin {"none", "stt", "llm"}
                      /\ y.p.result.status # "none") =>
                    /\ y.p.result.status = "failed"
                    /\ y.p.logpos >= 2
                    /\ appendLog'[y.uid][y.p.logpos - 1] = Turn("user", y.p.text)
                    /\ appendLog'[y.uid][y.p.logpos] = Turn("assistant", y.p.resp)
      ]_vars

\* A call that failed at synthesis or rendering has returned its failed
\* result, and its user's history ends with the call's two turns.
C27_Witness ==
    /\ last.p.kind # "none"
    /\ last.p.failed \notin {"none", "stt", "llm"}
    /\ last.p.result.status = "failed"
    /\ last.uid \in DOMAIN user_sessions
    /\ EndsWithExchange(user_sessions[last.uid], last.p)

\* How many times a pipeline call has invoked a stage.
Invocations(p, stage) == Cardinality({k \in DOMAIN p.inv : p.inv[k] = stage})

\* C28: in any single pipeline call, in flight or returned, each of
\* transcription, generation, synthesis, create_talking_avatar and the
\* submission of the render (POST /talks) has been invoked at most once; a call
\* that failed at one of them, or whose wait for the video timed out, has
\* invoked it exactly once.
C28_StagesInvokedOnce ==
    \A i \in CallIds :
        LET p == CallAt(i).p
        IN  /\ \A s \in {"stt", "llm", "tts", "render", "submit"} :
                   Invocations(p, s) <= 1
            /\ p.failed \in {"stt", "llm", "tts", "submit"} =>
                   Invocations(p, p.failed) = 1
            /\ p.failed \in {"poll", "sleep"} => Invocations(p, "submit") = 1

\* A call whose wait for the video timed out has returned its failed result:
\* the render was submitted once.
C28_Witness ==
    /\ last.p.kind # "none"
    /\ last.p.failed = "sleep"
    /\ last.p.result.status = "failed"
    /\ Invocations(last.p, "submit") = 1
    /\ Invocations(last.p, "llm") = 1

\* C29: a step of a pipeline call for user U (the step that starts it and
\* every later step up to its return) leaves the history of every other user
\* as it was: no other user's entry appears, disappears or changes.
C29_OtherHistoriesUntouched ==
    [][\A i \in ({"ws"} \X Conns) \cup ({"http"} \X Https) :
          LET x == CallOf(i)
              y == CallOfAfter(i)
          IN  ( \/ x.p.kind = "none" /\ y.p.kind # "none"
                \/ x.p.kind # "none" /\ CallOf(i)' # x )
              => \A v \in Users \ {y.uid} :
                     /\ (v \in DOMAIN user_sessions') <=> (v \in DOMAIN user_sessions)
                     /\ DictGet(user_sessions', v, <<>>) = DictGet(user_sessions, v, <<>>)
      ]_vars

\* A call of one user has appended its exchange and returned while a call of
\* another user, who has a history, is in flight.
C29_Witness ==
    /\ last.p.kind # "none"
    /\ last.p.logpos > 0
    /\ \E i \in InFlight :
           /\ CallAt(i).uid # last.uid
           /\ CallAt(i).p.logpos > 0
           /\ CallAt(i).uid \in DOMAIN user_sessions
           /\ EndsWithExchange(user_sessions[CallAt(i).uid], CallAt(i).p)

\* A pipeline call of user u has appended its exchange in this step.
AppendsFor(u) ==
    \E i \in ({"ws"} \X Conns) \cup ({"http"} \X Https) :
        /\ CallOf(i).p.kind = "none"
        /\ CallOfAfter(i).p.kind # "none"
        /\ CallOfAfter(i).uid = u
        /\ GenerationSucceeded(CallOfAfter(i).p)

\* C30: connecting, the client's leaving, the removal of a registration by
\* disconnect (after a failed send or in a forced disconnect) and every other
\* step that is not a pipeline call's append leave each user's conversation
\* history as it was; and a pipeline call reads as context the last ten turns
\* of the history its user has at that moment, whatever connections of that
\* user have come and gone.
C30_HistorySurvivesConnections ==
    [][/\ \A u \in Users :
             ~AppendsFor(u) =>
                 /\ (u \in DOMAIN user_sessions') <=> (u \in DOMAIN user_sessions)
                 /\ DictGet(user_sessions', u, <<>>) = DictGet(user_sessions, u, <<>>)
       /\ \A u \in Users :
             AppendsFor(u) =>
                 /\ u \in DOMAIN user_sessions'
                 /\ Len(user_sessions'[u]) >= 2
                 /\ SubSeq(user_sessions'[u], 1, Len(user_sessions'[u]) - 2)
                        = LastN(DictGet(user_sessions, u, <<>>),
                                Len(user_sessions'[u]) - 2)
       /\ \A i \in ({"ws"} \X Conns) \cup ({"http"} \X Https) :
             LET y == CallOfAfter(i)
             IN  ( /\ CallOf(i).p.kind = "none" /\ y.p.kind # "none"
                   /\ \E k \in DOMAIN y.p.inv : y.p.inv[k] = "llm" )
                 => /\ y.p.before = DictGet(user_sessions, y.uid, <<>>)
                    /\ y.p.ctx = LastN(DictGet(user_sessions, y.uid, <<>>),
                                       ContextWindow)
      ]_vars

\* A user with a history has two connections under the same identifier, the
\* earlier of which was accepted and has ended; a frame of the later one has
\* been answered by a pipeline call whose context was the last ten turns of
\* the history accumulated before.
C30_Witness ==
    /\ last.origin = "ws"
    /\ last.p.kind # "none"
    /\ last.p.result.status = "success"
    /\ Len(last.p.ctx) = ContextWindow
    /\ last.p.ctx = LastN(EarlierLog(MaxEarlier), ContextWindow)
    /\ \E d \in Conns :
           /\ d < last.id
           /\ ws[d].uid = last.uid
           /\ ws[d].st = "client_closed"
           /\ ep[d].pc \notin {"idle", "accept"}

\* C31: in every state (each is one in which every coroutine is suspended or
\* has returned) active_connections and user_metadata have the same set of
\* user identifiers, so the count, the user list and the metadata reported by
\* get_connection_stats agree.
C31_RegistryKeysAgree ==
    /\ DOMAIN active_connections = DOMAIN user_metadata
    /\ GetConnectionStats.users = DOMAIN GetConnectionStats.metadata
    /\ GetConnectionStats.total_connections
           = Cardinality(DOMAIN GetConnectionStats.metadata)

\* One user is registered while another, whose connection had been registered
\* and has ended, has been removed.
C31_Witness ==
    /\ active_connections # EmptyDict
    /\ \E c \in Conns :
           /\ ws[c].first # "-"
           /\ ws[c].st = "client_closed"
           /\ ws[c].uid \notin DOMAIN active_connections
           /\ ws[c].uid \notin DOMAIN user_metadata

\* GET /api/user/{user_id}/status: the `connected` field of get_user_status
UserStatusConnected(user_id) == user_id \in DOMAIN user_metadata

\* C32: when a forced-disconnect request has returned anything but not-found
\* (the user was registered when it was made), the user is in neither
\* active_connections nor user_metadata and a status lookup reports connected
\* false; a request that returned not-found has removed nothing.
C32_ForcedDisconnectRemoves ==
    (last.origin = "http" /\ last.k = "force_disconnect") =>
        /\ last.http_status # 404 =>
               /\ last.uid \notin DOMAIN active_connections
               /\ last.uid \notin DOMAIN user_metadata
               /\ ~UserStatusConnected(last.uid)
        /\ last.http_status = 404 => ~last.removed

\* A sequence of turns of even length alternating user, assistant, ...
Alternates(turns) ==
    /\ Len(turns) % 2 = 0
    /\ \A i \in DOMAIN turns :
           turns[i].role = (IF i % 2 = 1 THEN "user" ELSE "assistant")

\* C33: in every state each user's history has even length and alternates
\* user, assistant, ... from a user turn, also once the oldest turns have been
\* evicted; and every context window read for generation alternates the same
\* way, so a non-empty window starts with a user turn.
C33_HistoryAlternates ==
    /\ \A u \in DOMAIN user_sessions : Alternates(user_sessions[u])
    /\ last.origin = "context" =>
           /\ Alternates(last.p.ctx)
           /\ last.p.ctx # <<>> => last.p.ctx[1].role = "user"

\* A user whose oldest turns have been evicted: the history has 20 turns, and
\* a context window of 10 turns starting with a user turn has been read.
C33_Witness ==
    /\ last.origin = "context"
    /\ Len(appendLog[last.uid]) > HistoryLimit
    /\ Len(user_sessions[last.uid]) = HistoryLimit
    /\ Len(last.p.ctx) = ContextWindow
    /\ last.p.ctx[1].role = "user"
    /\ last.p.ctx[1] = appendLog[last.uid][Len(appendLog[last.uid]) - ContextWindow + 1]

\* C34: a ping frame received on a connection whose websocket is the one
\* registered under its user id makes the handler call send_text exactly once,
\* with a pong envelope, on that connection; no pipeline stage is invoked and
\* no conversation history changes.
C34_PingYieldsOnePong ==
    [][\A c \in Conns :
          ( /\ ep[c].pc = "recv"
            /\ RegisteredAs(c)
            /\ last.origin = "none"
            /\ last'.origin = "ws" /\ last'.id = c
            /\ last'.msg.type = "ping" )
          => /\ last'.sent = <<[type |-> "pong", to |-> c]>>
             /\ ep'[c].pc = "send" /\ ep'[c].env = "pong" /\ ep'[c].target = c
             /\ last'.p = NoCall
             /\ ep'[c].p = NoCall
             /\ user_sessions' = user_sessions
             /\ appendLog' = appendLog
      ]_vars

\* A ping of a registered session has been answered: one pong on the
\* connection it came from, while its user has a history.
C34_Witness ==
    /\ last.origin = "ws"
    /\ last.msg.type = "ping"
    /\ last.sent = <<[type |-> "pong", to |-> last.id]>>
    /\ last.uid \in DOMAIN user_sessions
    /\ Len(user_sessions[last.uid]) >= 2

====
